---- MODULE Spec2Model ----
(***************************************************************************)
(* Model of bevy-graph (src/src/main.rs): a force-directed graph layout    *)
(* driven by Bevy schedules.  setup spawns the nodes and the distance      *)
(* joints, update turns CollisionStarted events into DeltaV events,        *)
(* process_delta_v adds them to the velocities, move_on_drag overrides a   *)
(* node's position.                                                        *)
(*                                                                         *)
(* Arithmetic is exact: positions are integer lattice points, velocities   *)
(* are integers in units of 1/VelScale, unit vectors are integers in       *)
(* units of 1/UnitScale.  The lattice is a 10 x 24 rectangle, whose        *)
(* diagonal is 26, so every length, quotient and cosine that occurs is     *)
(* rational.  The rounding of f32 is not modelled.                         *)
(*                                                                         *)
(* Spec is the program.  SpecSetup is its startup for larger graphs.       *)
(* SpecDespawn is the program in a world where a node may be despawned,    *)
(* which the program itself never does: it shows what the systems do with  *)
(* a handle that no longer resolves.                                       *)
(***************************************************************************)
EXTENDS Integers, Sequences, FiniteSets, TLC

\* ---------------------------------------------------------------- bounds
\* Largest node_total of the full specification.
MaxNodeTotal == 3
\* Largest node_total of the startup specification.
MaxSetupNodes == 6
\* Frames (passes of the Main schedule) the model runs.
MaxFrames == 2
\* Fixed-timestep physics steps the model runs.
MaxFixedSteps == 2
\* CollisionStarted events one physics step reports.
MaxContacts == 1
\* Pointer<Drag> triggers in one frame.
MaxDrags == 2
\* Nodes despawned in SpecDespawn.
MaxDespawned == 1

\* ------------------------------------------------------------- constants
IDEAL_LENGTH == 50
\* COOLING_FACTOR = 0.2, in tenths.
COOLING_FACTOR == 2
NODE_MASS == 5
\* COMPLIANCE = 0.001, in thousandths.
COMPLIANCE == 1
COLLIDER_RADIUS == 49

\* Velocities are integers in units of 1/VelScale.
VelScale == 1014
\* Components of a unit vector are integers in units of 1/UnitScale.
UnitScale == 13
\* Angles are counted in the eight directions of the lattice, counter-
\* clockwise from the positive x axis: 0, atan(24/10), pi/2, pi - atan(24/10),
\* pi, ...; the directions are symmetric under a half turn, which is 4 steps.
PI == 4

\* Option::None.
None == <<>>

\* Velocity integrations a second: the fixed timestep of 64 Hz times the six
\* substeps of the solver, the defaults of PhysicsPlugins::default().
SubstepRate == 384
\* Substeps of one physics step.
SubstepCount == 6

\* The camera is the first entity setup spawns.
Camera == 0

\* World positions the cursor is seen at.
CursorPositions == {<<10, 0>>, <<10, 24>>}

\* Positions a node is spawned at, moved to or dragged to.
Positions == {<<0, 0>>, <<10, 0>>, <<10, 24>>}

VARIABLES
    schedule,       \* the schedule whose systems ran last; "Panicked" after a panic
    config,         \* the f32 fields of the Config resource
    node_total,     \* Config.node_total
    components,     \* Mass, Collider radius and LinearDamping of every node
    ids,            \* the node entities in creation order (setup's ids)
    translation,    \* Transform.translation.xy of every node
    velocity,       \* LinearVelocity of every node
    joints,         \* the DistanceJoints, in spawn order
    collisions,     \* CollisionStarted events update has not read yet
    delta_v,        \* DeltaV events process_delta_v has not read yet
    iterations,     \* Iterations.0
    cursor,         \* CursorLocation.world_position()
    drags,          \* targets of the Pointer<Drag> triggers of this PreUpdate
    fixed_steps,    \* physics steps taken so far
    frame           \* frames completed

vars == <<schedule, config, node_total, components, ids, translation, velocity,
          joints, collisions, delta_v, iterations, cursor, drags, fixed_steps,
          frame>>

\* --------------------------------------------------------------- vectors
Zero == <<0, 0>>
VAdd(u, v) == <<u[1] + v[1], u[2] + v[2]>>
VSub(u, v) == <<u[1] - v[1], u[2] - v[2]>>
VNeg(u) == <<0 - u[1], 0 - u[2]>>
Abs(x) == IF x < 0 THEN 0 - x ELSE x
LengthSquared(v) == v[1] * v[1] + v[2] * v[2]

\* Vec2::length: the square root of the squared length.
Length(v) == CHOOSE r \in 0..(Abs(v[1]) + Abs(v[2])) : r * r = LengthSquared(v)

\* A vector along a diagonal of the lattice: |y| / |x| = 24 / 10.
Diagonal(v) == 5 * Abs(v[2]) = 12 * Abs(v[1])

\* Vec2::to_angle: atan2(y, x), in (-PI, PI], for a vector along an axis or a
\* diagonal of the lattice.
to_angle(v) ==
    CASE v[2] = 0 /\ v[1] >= 0 -> 0
      [] v[2] = 0 /\ v[1] < 0 -> PI
      [] v[1] = 0 /\ v[2] > 0 -> 2
      [] v[1] = 0 /\ v[2] < 0 -> 0 - 2
      [] v[1] > 0 /\ v[2] > 0 /\ Diagonal(v) -> 1
      [] v[1] < 0 /\ v[2] > 0 /\ Diagonal(v) -> 3
      [] v[1] < 0 /\ v[2] < 0 /\ Diagonal(v) -> 0 - 3
      [] v[1] > 0 /\ v[2] < 0 /\ Diagonal(v) -> 0 - 1

\* Vec2::from_angle: (cos angle, sin angle), periodic in the angle.
from_angle(angle) ==
    CASE angle % 8 = 0 -> <<13, 0>>
      [] angle % 8 = 1 -> <<5, 12>>
      [] angle % 8 = 2 -> <<0, 13>>
      [] angle % 8 = 3 -> <<0 - 5, 12>>
      [] angle % 8 = 4 -> <<0 - 13, 0>>
      [] angle % 8 = 5 -> <<0 - 5, 0 - 12>>
      [] angle % 8 = 6 -> <<0, 0 - 13>>
      [] angle % 8 = 7 -> <<5, 0 - 12>>

\* Vec2 * f32: a unit vector times a force gives a velocity.
Mul(unit, force) ==
    <<(unit[1] * force) \div UnitScale, (unit[2] * force) \div UnitScale>>

\* ------------------------------------------------------- repulsive_force
\* Angles rand::thread_rng().gen_range(-PI..=PI) draws: both ends and two inside.
RandomAngles == {0 - PI, 0 - 1, 2, PI}

\* The non-degenerate branch with an inverse-square force.
repulsive_force_apart_inverse_square(a, b) ==
    LET diff == VSub(a, b)
        angle == to_angle(diff)
        force == (VelScale * IDEAL_LENGTH * IDEAL_LENGTH) \div LengthSquared(diff)
    IN  <<Mul(from_angle(angle), force), Mul(from_angle(angle + PI), force)>>

\* The non-degenerate branch of repulsive_force.
repulsive_force_apart(a, b) ==
    LET diff == VSub(a, b)
        angle == to_angle(diff)
        force == (VelScale * IDEAL_LENGTH * IDEAL_LENGTH) \div Length(diff)
    IN  <<Mul(from_angle(angle), force), Mul(from_angle(angle + PI), force)>>

\* The branch for a == b pushing both nodes along the same angle.
repulsive_force_same_direction(angle) ==
    LET force == VelScale * IDEAL_LENGTH * IDEAL_LENGTH
    IN  <<Mul(from_angle(angle), force), Mul(from_angle(angle), force)>>

\* The branch of repulsive_force for a == b, for the angle drawn.
repulsive_force_same(angle) ==
    LET force == VelScale * IDEAL_LENGTH * IDEAL_LENGTH
    IN  <<Mul(from_angle(angle), force), Mul(from_angle(angle + PI), force)>>

\* repulsive_force(a, b), where angle is the random angle it draws when a == b.
repulsive_force(a, b, angle) ==
    IF a = b THEN repulsive_force_same(angle) ELSE repulsive_force_apart(a, b)

\* ----------------------------------------------------------------- setup
\* Config::default() with another ideal length than the constant.
Config_default_other_length ==
    [ideal_length |-> 2 * IDEAL_LENGTH, cooling_factor |-> COOLING_FACTOR,
     node_mass |-> NODE_MASS, compliance |-> COMPLIANCE,
     collider_radius |-> COLLIDER_RADIUS]

\* Config::default(): the f32 fields.
Config_default ==
    [ideal_length |-> IDEAL_LENGTH, cooling_factor |-> COOLING_FACTOR,
     node_mass |-> NODE_MASS, compliance |-> COMPLIANCE,
     collider_radius |-> COLLIDER_RADIUS]

\* The damping left at LinearDamping::default().
Damping_default(cfg) == 0

\* The damping set to the cooling factor itself.
Damping_cooling_factor(cfg) == cfg.cooling_factor

\* let damping = 1. / config.cooling_factor, the cooling factor in tenths.
Damping(cfg) == 10 \div cfg.cooling_factor

\* The Mass, Collider::circle and LinearDamping of the bundle setup spawns.
NodeBundle(cfg) ==
    [mass |-> cfg.node_mass, collider_radius |-> cfg.collider_radius,
     linear_damping |-> Damping(cfg)]

\* A joint spawned with its first entity at both ends.
DistanceJoint_self(e1, e2) ==
    [entity1 |-> e1, entity2 |-> e1,
     rest_length |-> config.ideal_length, compliance |-> config.compliance]

DistanceJoint(e1, e2) ==
    [entity1 |-> e1, entity2 |-> e2,
     rest_length |-> config.ideal_length, compliance |-> config.compliance]

RECURSIVE SpawnJoints(_, _)

\* The loop joining a triple as a chain: (x, n1) and (n1, n2).
SpawnJoints_chain(v, i) ==
    IF i + 2 > Len(v) THEN <<>>
    ELSE <<DistanceJoint(v[i], v[i + 1]), DistanceJoint(v[i + 1], v[i + 2])>>
         \o SpawnJoints(v, i + 3)

\* The loop spawning the first joint before it looks for n2.
SpawnJoints_eager(v, i) ==
    IF i + 1 > Len(v) THEN <<>>
    ELSE IF i + 2 > Len(v) THEN <<DistanceJoint(v[i], v[i + 1])>>
    ELSE <<DistanceJoint(v[i], v[i + 1]), DistanceJoint(v[i], v[i + 2])>>
         \o SpawnJoints(v, i + 3)

\* The while-let loop of setup over ids.iter(), from the i-th element on.
SpawnJoints(v, i) ==
    IF i > Len(v) THEN <<>>
    ELSE IF i + 1 > Len(v) THEN <<>>
    ELSE IF i + 2 > Len(v) THEN <<>>
    ELSE <<DistanceJoint(v[i], v[i + 1]), DistanceJoint(v[i], v[i + 2])>>
         \o SpawnJoints(v, i + 3)

\* The entities the for loop of setup spawns, after the camera.
SpawnedIds(n) == [k \in 1..n |-> Camera + k]

setup ==
    /\ schedule = "Init"
    /\ schedule' = "Startup"
    /\ ids' = SpawnedIds(node_total)
    /\ \E pos \in [1..node_total -> Positions] :
          translation' = [e \in {Camera + k : k \in 1..node_total} |-> pos[e - Camera]]
    /\ velocity' = [e \in {Camera + k : k \in 1..node_total} |-> Zero]
    /\ components' = [e \in {Camera + k : k \in 1..node_total} |-> NodeBundle(config)]
    /\ joints' = SpawnJoints(SpawnedIds(node_total), 1)
    /\ UNCHANGED <<config, node_total, collisions, delta_v, iterations, cursor,
                   drags, fixed_steps, frame>>

\* The nodes alive: every node has a Transform.
Nodes == DOMAIN translation

\* The run covers MaxFrames frames: another Update may start while this holds.
FrameOpen == frame < MaxFrames

\* ----------------------------------------------------------------- panic
\* The first of the events from the i-th on with a handle the query does not
\* resolve, Len + 1 when there is none. handles[i] is the set of entities the
\* i-th event names, live the entities the query matches.
RECURSIVE FirstUnresolved(_, _, _)
FirstUnresolved(handles, live, i) ==
    IF i > Len(handles) THEN i
    ELSE IF handles[i] \subseteq live THEN FirstUnresolved(handles, live, i + 1)
    ELSE i

\* The handler returning at the handle that does not resolve.
unwrap_or_return(stop, n, next) == next

\* Result::expect and Result::unwrap in a handler that reads n events and
\* stops at event stop: past the last event the schedule goes on to next, at
\* an event it is a panic, which ends the program.
unwrap(stop, n, next) == IF stop > n THEN next ELSE "Panicked"

\* ------------------------------------------------------------- PreUpdate
\* TrackCursorPlugin refreshes CursorLocation before the pointer events.
track_cursor ==
    /\ FrameOpen
    /\ schedule \in {"Startup", "PostUpdate"}
    /\ schedule' = "PreUpdate"
    /\ cursor' \in CursorPositions \cup {None}
    /\ UNCHANGED <<config, node_total, components, ids, translation, velocity,
                   joints, collisions, delta_v, iterations, drags, fixed_steps,
                   frame>>

\* The override falling back to the default position without a cursor.
move_on_drag_transforms_default(transforms, target, world_position) ==
    IF world_position = None THEN [transforms EXCEPT ![target] = Zero]
    ELSE [transforms EXCEPT ![target] = world_position]

\* The override adding the cursor position to the translation.
move_on_drag_transforms_offset(transforms, target, world_position) ==
    IF world_position = None THEN transforms
    ELSE [transforms EXCEPT ![target] = VAdd(transforms[target], world_position)]

\* The transforms after move_on_drag for a trigger on target.
move_on_drag_transforms(transforms, target, world_position) ==
    IF world_position = None THEN transforms
    ELSE [transforms EXCEPT ![target] = world_position]

\* The entities the observer watches: the ids of setup.
Watched == {ids[k] : k \in 1..Len(ids)}

\* The joints with an end at one of the entities.
JointsOf(entities) ==
    {i \in 1..Len(joints) :
        joints[i].entity1 \in entities \/ joints[i].entity2 \in entities}

\* The joints left when those of the entities are removed.
RECURSIVE WithoutJoints(_, _, _)
WithoutJoints(js, entities, i) ==
    IF i > Len(js) THEN <<>>
    ELSE IF js[i].entity1 \in entities \/ js[i].entity2 \in entities
         THEN WithoutJoints(js, entities, i + 1)
    ELSE <<js[i]>> \o WithoutJoints(js, entities, i + 1)

\* The observer taking the dragged node out of its joints.
move_on_drag_detach ==
    /\ FrameOpen
    /\ schedule = "PreUpdate"
    /\ Len(drags) < MaxDrags
    /\ \E target \in Watched :
          LET stop == FirstUnresolved(<<{target}>>, Nodes, 1)
          IN  /\ schedule' = unwrap(stop, 1, schedule)
              /\ translation' = IF stop > 1
                                THEN move_on_drag_transforms(translation, target, cursor)
                                ELSE translation
              /\ drags' = IF stop > 1 THEN Append(drags, target) ELSE drags
              /\ joints' = WithoutJoints(joints, {target}, 1)
    /\ UNCHANGED <<config, node_total, components, ids, velocity, collisions,
                   delta_v, iterations, cursor, fixed_steps, frame>>

\* The observer runs for a Pointer<Drag> on an entity it watches. Pointer
\* events are dispatched in PreUpdate. get_mut(trigger.target).unwrap() comes
\* first: a target without a Transform is a panic before anything is written.
move_on_drag ==
    /\ FrameOpen
    /\ schedule = "PreUpdate"
    /\ Len(drags) < MaxDrags
    /\ \E target \in Watched :
          LET stop == FirstUnresolved(<<{target}>>, Nodes, 1)
          IN  /\ schedule' = unwrap(stop, 1, schedule)
              /\ translation' = IF stop > 1
                                THEN move_on_drag_transforms(translation, target, cursor)
                                ELSE translation
              /\ drags' = IF stop > 1 THEN Append(drags, target) ELSE drags
    /\ UNCHANGED <<config, node_total, components, ids, velocity, joints,
                   collisions, delta_v, iterations, cursor, fixed_steps, frame>>

\* ------------------------------------------------------ RunFixedMainLoop
\* Ordered pairs of distinct nodes.
ContactPairs == {p \in Nodes \X Nodes : p[1] # p[2]}

\* Batches of contacts one step reports: no pair twice, in either order.
ContactBatches ==
    {<<>>} \cup
    UNION {{s \in [1..n -> ContactPairs] :
               \A i, j \in 1..n :
                   i # j => {s[i][1], s[i][2]} # {s[j][1], s[j][2]}} :
           n \in 1..MaxContacts}

\* x / d rounded towards zero.
Trunc(x, d) == IF x < 0 THEN 0 - ((0 - x) \div d) ELSE x \div d

\* The damping of n substeps on one component of a velocity: each substep
\* multiplies by 1 / (1 + dt * damping), dt = 1 / SubstepRate, which is
\* x - x * damping / (SubstepRate + damping).
RECURSIVE Damp(_, _, _)
Damp(x, damping, n) ==
    IF n = 0 THEN x
    ELSE Damp(x - Trunc(x * damping, SubstepRate + damping), damping, n - 1)

\* The LinearVelocity of a body after the damping of one physics step.
DampedVelocity(v, damping) ==
    <<Damp(v[1], damping, SubstepCount), Damp(v[2], damping, SubstepCount)>>

\* A body the step moves: gravity is zero and the colliders are sensors, so
\* it is one with a velocity or one a joint pulls at (no two Positions are
\* the rest length apart).
Movable(e) == velocity[e] # Zero \/ JointsOf({e}) # {}

\* The physics schedule running in PostUpdate, ahead of process_delta_v.
physics_step_post_update ==
    /\ FrameOpen
    /\ schedule \in {"PreUpdate", "RunFixedMainLoop", "Update"}
    /\ fixed_steps < MaxFixedSteps
    /\ schedule' = IF schedule = "Update" THEN "Update" ELSE "RunFixedMainLoop"
    /\ fixed_steps' = fixed_steps + 1
    /\ \E batch \in ContactBatches : collisions' = collisions \o batch
    /\ UNCHANGED <<config, node_total, components, ids, translation, velocity,
                   joints, delta_v, iterations, cursor, drags, frame>>

\* One step of the physics schedule, which PhysicsPlugins::default() runs in
\* FixedPostUpdate, inside RunFixedMainLoop, any number of times a frame. It
\* detects the contacts that started, writes a CollisionStarted for each (only
\* nodes have colliders, so both entities of an event are nodes), damps every
\* velocity by the body's LinearDamping and integrates: a body that moves may
\* be at another of the Positions afterwards, or nearer than that to where it
\* was. Every node is RigidBody::Dynamic for the whole run, a dragged one
\* too. What the joints do to the velocities is not modelled.
physics_step ==
    /\ FrameOpen
    /\ schedule \in {"PreUpdate", "RunFixedMainLoop"}
    /\ fixed_steps < MaxFixedSteps
    /\ schedule' = "RunFixedMainLoop"
    /\ fixed_steps' = fixed_steps + 1
    /\ \E batch \in ContactBatches : collisions' = collisions \o batch
    /\ velocity' = [e \in Nodes |->
                       DampedVelocity(velocity[e], components[e].linear_damping)]
    /\ \/ UNCHANGED translation
       \/ \E e \in {n \in Nodes : Movable(n)}, p \in Positions :
             translation' = [translation EXCEPT ![e] = p]
    /\ drags' = <<>>
    /\ UNCHANGED <<config, node_total, components, ids, joints, delta_v,
                   iterations, cursor, frame>>

\* ---------------------------------------------------------------- Update
RECURSIVE WriteBatches(_, _, _, _)

\* update writing the impulse on A alone.
WriteBatches_only_a(events, transforms, angles, i) ==
    IF i > Len(events) THEN <<>>
    ELSE LET a_id == events[i][1]
             a == transforms[a_id]
             b == transforms[events[i][2]]
             rep == repulsive_force(a, b, IF a = b THEN angles[i] ELSE None)
         IN  <<<<a_id, rep[1]>>>> \o WriteBatches(events, transforms, angles, i + 1)

\* update writing the impulse on A for both entities.
WriteBatches_rep_a_twice(events, transforms, angles, i) ==
    IF i > Len(events) THEN <<>>
    ELSE LET a_id == events[i][1]
             b_id == events[i][2]
             a == transforms[a_id]
             b == transforms[b_id]
             rep == repulsive_force(a, b, IF a = b THEN angles[i] ELSE None)
         IN  <<<<a_id, rep[1]>>, <<b_id, rep[1]>>>>
             \o WriteBatches(events, transforms, angles, i + 1)

\* The events for which repulsive_force draws a random angle.
Degenerate(events, transforms) ==
    {i \in 1..Len(events) : transforms[events[i][1]] = transforms[events[i][2]]}

\* The DeltaV events update writes for the events from the i-th on; angles[i]
\* is the angle repulsive_force draws for the i-th event, when it draws one.
WriteBatches(events, transforms, angles, i) ==
    IF i > Len(events) THEN <<>>
    ELSE LET a_id == events[i][1]
             b_id == events[i][2]
             a == transforms[a_id]
             b == transforms[b_id]
             rep == repulsive_force(a, b, IF a = b THEN angles[i] ELSE None)
         IN  <<<<a_id, rep[1]>>, <<b_id, rep[2]>>>>
             \o WriteBatches(events, transforms, angles, i + 1)

\* The entities each CollisionStarted names.
CollisionHandles(events) ==
    [i \in 1..Len(events) |-> {events[i][1], events[i][2]}]

RECURSIVE ApplyDeltaV(_, _, _)

\* update adding the impulses to the velocities itself, as it writes them.
update_synchronous ==
    /\ FrameOpen
    /\ schedule \in {"PreUpdate", "RunFixedMainLoop"}
    /\ iterations' = iterations + 1
    /\ LET stop == FirstUnresolved(CollisionHandles(collisions), Nodes, 1)
           read == SubSeq(collisions, 1, stop - 1)
       IN  /\ schedule' = unwrap(stop, Len(collisions), "Update")
           /\ \E angles \in [Degenerate(read, translation) -> RandomAngles] :
                 /\ delta_v' = delta_v \o WriteBatches(read, translation, angles, 1)
                 /\ velocity' = ApplyDeltaV(WriteBatches(read, translation, angles, 1),
                                            velocity, 1)
           /\ collisions' = SubSeq(collisions, stop + 1, Len(collisions))
    /\ drags' = <<>>
    /\ UNCHANGED <<config, node_total, components, ids, translation, joints,
                   cursor, fixed_steps, frame>>

\* update running under the run condition below_cutoff.
update_below_cutoff ==
    /\ FrameOpen
    /\ iterations < 2
    /\ schedule \in {"PreUpdate", "RunFixedMainLoop"}
    /\ iterations' = iterations + 1
    /\ LET stop == FirstUnresolved(CollisionHandles(collisions), Nodes, 1)
           read == SubSeq(collisions, 1, stop - 1)
       IN  /\ schedule' = unwrap(stop, Len(collisions), "Update")
           /\ \E angles \in [Degenerate(read, translation) -> RandomAngles] :
                 delta_v' = delta_v \o WriteBatches(read, translation, angles, 1)
           /\ collisions' = SubSeq(collisions, stop + 1, Len(collisions))
    /\ drags' = <<>>
    /\ UNCHANGED <<config, node_total, components, ids, translation, velocity,
                   joints, cursor, fixed_steps, frame>>

\* update reads the events in order; query.get(..).expect(..) stops at the
\* first that names an entity without a Transform, after the DeltaV events of
\* those before it are written and before any later one is read.
update ==
    /\ FrameOpen
    /\ schedule \in {"PreUpdate", "RunFixedMainLoop"}
    /\ iterations' = iterations + 1
    /\ LET stop == FirstUnresolved(CollisionHandles(collisions), Nodes, 1)
           read == SubSeq(collisions, 1, stop - 1)
       IN  /\ schedule' = unwrap(stop, Len(collisions), "Update")
           /\ \E angles \in [Degenerate(read, translation) -> RandomAngles] :
                 delta_v' = delta_v \o WriteBatches(read, translation, angles, 1)
           /\ collisions' = SubSeq(collisions, stop + 1, Len(collisions))
    /\ drags' = <<>>
    /\ UNCHANGED <<config, node_total, components, ids, translation, velocity,
                   joints, cursor, fixed_steps, frame>>

\* ------------------------------------------------------------ PostUpdate
\* The loop assigning the delta to the velocity.
ApplyDeltaV_overwrite(events, v, i) ==
    IF i > Len(events) THEN v
    ELSE ApplyDeltaV(events, [v EXCEPT ![events[i][1]] = events[i][2]], i + 1)

\* The loop halving the velocity it adds the delta to.
ApplyDeltaV_cooled(events, v, i) ==
    IF i > Len(events) THEN v
    ELSE LET id == events[i][1]
             dv == events[i][2]
         IN  ApplyDeltaV(events,
                         [v EXCEPT ![id] = VAdd(<<v[id][1] \div 2, v[id][2] \div 2>>, dv)],
                         i + 1)

\* The velocities after the for loop of process_delta_v from the i-th event on.
ApplyDeltaV(events, v, i) ==
    IF i > Len(events) THEN v
    ELSE LET id == events[i][1]
             dv == events[i][2]
         IN  ApplyDeltaV(events, [v EXCEPT ![id] = VAdd(v[id], dv)], i + 1)

\* The entity each DeltaV names.
DeltaVHandles(events) == [i \in 1..Len(events) |-> {events[i][1]}]

\* process_delta_v reads the events in order; query.get_mut(*id).unwrap()
\* stops at the first that names an entity without a LinearVelocity, after
\* those before it are added.
process_delta_v ==
    /\ schedule = "Update"
    /\ iterations' = iterations + 1
    /\ LET stop == FirstUnresolved(DeltaVHandles(delta_v), DOMAIN velocity, 1)
       IN  /\ schedule' = unwrap(stop, Len(delta_v), "PostUpdate")
           /\ velocity' = ApplyDeltaV(SubSeq(delta_v, 1, stop - 1), velocity, 1)
           /\ delta_v' = SubSeq(delta_v, stop + 1, Len(delta_v))
           /\ frame' = IF stop > Len(delta_v) THEN frame + 1 ELSE frame
    /\ UNCHANGED <<config, node_total, components, ids, translation, joints,
                   collisions, cursor, drags, fixed_steps>>

\* --------------------------------------------------------------- despawn
\* A world the program never makes: one of the nodes is despawned between
\* two systems, and the events and the observer still name it.
despawn ==
    /\ FrameOpen
    /\ schedule \in {"Startup", "PreUpdate", "RunFixedMainLoop", "Update",
                     "PostUpdate"}
    /\ Len(ids) - Cardinality(Nodes) < MaxDespawned
    /\ \E e \in Nodes :
          /\ translation' = [n \in Nodes \ {e} |-> translation[n]]
          /\ velocity' = [n \in Nodes \ {e} |-> velocity[n]]
          /\ components' = [n \in Nodes \ {e} |-> components[n]]
    /\ UNCHANGED <<schedule, config, node_total, ids, joints, collisions,
                   delta_v, iterations, cursor, drags, fixed_steps, frame>>

\* --------------------------------------------------------- specification
InitWith(n) ==
    /\ schedule = "Init"
    /\ config = Config_default
    /\ node_total \in 0..n
    /\ components = <<>>
    /\ ids = <<>>
    /\ translation = <<>>
    /\ velocity = <<>>
    /\ joints = <<>>
    /\ collisions = <<>>
    /\ delta_v = <<>>
    /\ iterations = 0
    /\ cursor = None
    /\ drags = <<>>
    /\ fixed_steps = 0
    /\ frame = 0

Init == InitWith(MaxNodeTotal)

Next ==
    \/ setup
    \/ track_cursor
    \/ move_on_drag
    \/ physics_step
    \/ update
    \/ process_delta_v

Spec == Init /\ [][Next]_vars

\* Startup alone, for larger graphs.
InitSetup == InitWith(MaxSetupNodes)

NextSetup == setup

SpecSetup == InitSetup /\ [][NextSetup]_vars

\* The program in a world that may despawn a node.
NextDespawn ==
    \/ setup
    \/ track_cursor
    \/ move_on_drag
    \/ physics_step
    \/ update
    \/ process_delta_v
    \/ despawn

SpecDespawn == Init /\ [][NextDespawn]_vars

\* ------------------------------------------------------------ repulsion
\* The events of the queue come in pairs, one pair for each contact: the
\* k-th pair is the impulse on A and the impulse on B of the k-th contact.
\* update leaves the transforms alone, so while the pair is queued the
\* transforms of its nodes are the positions it was computed from.
ImpulsePairs == 1..(Len(delta_v) \div 2)
ImpulseA(k) == delta_v[2 * k - 1][2]
ImpulseB(k) == delta_v[2 * k][2]
PositionA(k) == translation[delta_v[2 * k - 1][1]]
PositionB(k) == translation[delta_v[2 * k][1]]

RECURSIVE GCD(_, _)
GCD(m, n) == IF n = 0 THEN m ELSE GCD(n, m % n)

\* |v| = m, for m > 0, with both sides divided by a common factor.
HasLength(v, m) ==
    LET g == GCD(GCD(Abs(v[1]), Abs(v[2])), m)
    IN  LengthSquared(<<v[1] \div g, v[2] \div g>>) = (m \div g) * (m \div g)

IntegrateStep == fixed_steps' = fixed_steps + 1
ComputeStep == schedule # "Update" /\ schedule' = "Update"
ApplyStep == schedule # "PostUpdate" /\ schedule' = "PostUpdate"
DragStep == Len(drags') = Len(drags) + 1

\* The sum of the deltas of the queue for node n, from the i-th event on.
RECURSIVE SumDeltas(_, _, _)
SumDeltas(queue, n, i) ==
    IF i > Len(queue) THEN Zero
    ELSE IF queue[i][1] = n THEN VAdd(queue[i][2], SumDeltas(queue, n, i + 1))
    ELSE SumDeltas(queue, n, i + 1)

\* C6: the impulses of one tick accumulate: after process_delta_v every
\* node's velocity is its velocity before plus the sum of all deltas queued
\* for it; no delta overwrites another.
C6_DeltasAccumulate ==
    [][ApplyStep =>
          \A n \in Nodes :
              velocity'[n] = VAdd(velocity[n], SumDeltas(delta_v, n, 1))]_vars

\* The first frame ends with node n0 at (0,0) carrying the sum of its two
\* impulses, one from a node at (10,0) and one from a node at (10,24).
C6_Witness ==
    /\ schedule = "PostUpdate"
    /\ frame = 1
    /\ Len(ids) = 3
    /\ translation[ids[1]] = <<0, 0>>
    /\ translation[ids[2]] = <<10, 0>>
    /\ translation[ids[3]] = <<10, 24>>
    /\ velocity[ids[1]] = VAdd(<<(0 - 250) * VelScale, 0>>, <<0 - 37500, 0 - 90000>>)

\* C7: every contact event update reads queues one delta for each of its
\* two nodes; process_delta_v drains the queue and applies every delta once;
\* nothing is queued at any other time, so nothing is pending when the
\* next physics step runs.
C7_DeltasAppliedOnce ==
    /\ [](schedule # "Update" => delta_v = <<>>)
    /\ [][/\ ComputeStep =>
               /\ Len(delta_v') = Len(delta_v) + 2 * Len(collisions)
               /\ \A i \in 1..Len(collisions) :
                     /\ delta_v'[Len(delta_v) + 2 * i - 1][1] = collisions[i][1]
                     /\ delta_v'[Len(delta_v) + 2 * i][1] = collisions[i][2]
               /\ collisions' = <<>>
          /\ ApplyStep =>
               /\ delta_v' = <<>>
               /\ \A n \in Nodes :
                     VSub(velocity'[n], velocity[n]) = SumDeltas(delta_v, n, 1)
          /\ IntegrateStep => delta_v = <<>> /\ delta_v' = <<>>]_vars

\* A physics step has run in the second frame, after the first frame's
\* deltas were applied.
C7_Witness ==
    /\ schedule = "RunFixedMainLoop"
    /\ frame = 1
    /\ delta_v = <<>>
    /\ \E n \in Nodes : velocity[n] # Zero

C9_DragWithoutCursor ==
    [][DragStep /\ cursor = None =>
          UNCHANGED <<translation, velocity, joints, collisions, delta_v, ids>>]_vars

\* A moving node away from the origin was dragged without a cursor position
\* and is where it was.
C9_Witness ==
    /\ schedule = "PreUpdate"
    /\ cursor = None
    /\ Len(drags) >= 1
    /\ translation[drags[1]] # Zero
    /\ velocity[drags[1]] # Zero

\* C10: a drag with a world position puts the node there and leaves every
\* velocity alone; the same drag again changes nothing.
C10_DragIdempotent ==
    [][DragStep /\ cursor # None =>
          LET target == drags'[Len(drags')]
          IN  /\ translation'[target] = cursor
              /\ \A e \in Nodes \ {target} : translation'[e] = translation[e]
              /\ velocity' = velocity
              /\ (Len(drags) >= 1 /\ drags[Len(drags)] = target) =>
                    translation' = translation]_vars

\* A moving node was dragged twice to the cursor position.
C10_Witness ==
    /\ schedule = "PreUpdate"
    /\ cursor # None
    /\ Len(drags) = 2
    /\ drags[1] = drags[2]
    /\ translation[drags[2]] = cursor
    /\ velocity[drags[2]] # Zero

\* ------------------------------------------------------------- topology
\* The joints as pairs (entity1, entity2).
JointPairs == {<<joints[i].entity1, joints[i].entity2>> : i \in 1..Len(joints)}

\* Edges (n(3k), n(3k+1)) and (n(3k), n(3k+2)) of the complete triples of
\* the creation order v, whose first element is n0.
TripleEdges(v) ==
    UNION {{<<v[3 * k + 1], v[3 * k + 2]>>, <<v[3 * k + 1], v[3 * k + 3]>>} :
           k \in 0..((Len(v) \div 3) - 1)}

\* C1: after startup with N nodes in creation order n0..n(N-1), the edges are
\* exactly (n(3k), n(3k+1)) and (n(3k), n(3k+2)) for 0 <= k < floor(N/3); a
\* trailing group of fewer than three nodes adds none.
C1_EdgesAreTriples ==
    schedule # "Init" =>
        /\ Len(ids) = node_total
        /\ JointPairs = TripleEdges(ids)

\* Six nodes n0..n5 give the edges (n0,n1), (n0,n2), (n3,n4), (n3,n5).
C1_Witness ==
    /\ schedule = "Startup"
    /\ node_total = 6
    /\ JointPairs = {<<ids[1], ids[2]>>, <<ids[1], ids[3]>>,
                     <<ids[4], ids[5]>>, <<ids[4], ids[6]>>}

\* C2: for every node_total = N, setup runs to its end and spawns exactly
\* 2 * floor(N/3) joints: none for N in {0, 1, 2}.
C2_EdgeCount ==
    /\ schedule = "Init" => ENABLED setup
    /\ schedule # "Init" =>
          /\ Len(joints) = 2 * (node_total \div 3)
          /\ Cardinality(JointPairs) = Len(joints)
          /\ node_total < 3 => joints = <<>>

\* Two nodes are spawned and no joint.
C2_Witness ==
    /\ schedule = "Startup"
    /\ node_total = 2
    /\ Len(ids) = 2
    /\ joints = <<>>

\* C3: in every reachable state no joint connects a node to itself, and both
\* ends of every joint are nodes spawned at startup.
C3_NoSelfEdge ==
    /\ Nodes = {ids[k] : k \in 1..Len(ids)}
    /\ \A i \in 1..Len(joints) :
          /\ joints[i].entity1 # joints[i].entity2
          /\ joints[i].entity1 \in Nodes
          /\ joints[i].entity2 \in Nodes

\* The joints are still in place after a frame that changed the velocities.
C3_Witness ==
    /\ frame >= 1
    /\ Len(joints) = 2
    /\ \E e \in Nodes : velocity[e] # Zero

\* ------------------------------------------------------- override and step
\* C11: a node that a drag of this frame has put at the cursor position is
\* still at that position after the physics step of the frame: Integrate
\* leaves the position of an overridden node alone.
C11_IntegrateKeepsOverride ==
    [][IntegrateStep /\ cursor # None =>
          \A k \in 1..Len(drags) :
              translation'[drags[k]] = translation[drags[k]]]_vars

\* ------------------------------------------------------ unresolved handles
\* The steps of update and of process_delta_v, panics included.
UpdateStep ==
    schedule \in {"PreUpdate", "RunFixedMainLoop"} /\ iterations' = iterations + 1
ProcessStep == schedule = "Update" /\ iterations' = iterations + 1

\* The first event that names an entity outside live, Len + 1 when none does.
FirstDead(handles, live) ==
    CHOOSE i \in 1..(Len(handles) + 1) :
        /\ i <= Len(handles) => ~(handles[i] \subseteq live)
        /\ \A j \in 1..(i - 1) : handles[j] \subseteq live

\* C12: a contact event, a queued delta or a drag that names an entity which
\* is no node any more ends the program: update and process_delta_v panic at
\* the first such event, with the events before it handled and none after
\* it, a drag panics before it writes, and nothing runs after a panic. No
\* handler returns normally from such an event.
C12_UnresolvedHandlePanics ==
    /\ [](schedule = "Panicked" => ~ENABLED NextDespawn)
    /\ [][/\ UpdateStep =>
               LET stop == FirstDead(CollisionHandles(collisions), Nodes)
               IN  IF stop <= Len(collisions)
                   THEN /\ schedule' = "Panicked"
                        /\ Len(delta_v') = Len(delta_v) + 2 * (stop - 1)
                        /\ collisions' = SubSeq(collisions, stop + 1, Len(collisions))
                        /\ UNCHANGED <<translation, velocity>>
                   ELSE schedule' = "Update"
          /\ ProcessStep =>
               LET stop == FirstDead(DeltaVHandles(delta_v), Nodes)
               IN  IF stop <= Len(delta_v)
                   THEN /\ schedule' = "Panicked"
                        /\ \A n \in Nodes :
                              velocity'[n] =
                                  VAdd(velocity[n],
                                       SumDeltas(SubSeq(delta_v, 1, stop - 1), n, 1))
                        /\ delta_v' = SubSeq(delta_v, stop + 1, Len(delta_v))
                   ELSE schedule' = "PostUpdate"
          /\ DragStep => drags'[Len(drags')] \in Nodes
          /\ (schedule = "PreUpdate" /\ schedule' = "Panicked"
                 /\ iterations' = iterations) =>
               /\ ~(Watched \subseteq Nodes)
               /\ UNCHANGED <<translation, velocity, joints, drags>>]_vars

\* update has panicked at a contact with a despawned node: the contact
\* reported after it is unread and nothing is queued for it.
C12_Witness ==
    /\ schedule = "Panicked"
    /\ iterations = 1
    /\ Len(collisions) = 1
    /\ collisions[1][1] \in Nodes
    /\ collisions[1][2] \in Nodes
    /\ delta_v = <<>>

\* ----------------------------------------------------------------- damping
\* The nodes no joint pulls at.
Free == {n \in Nodes : JointsOf({n}) = {}}

C14_ComputeOnlyQueues ==
    [][ComputeStep =>
          /\ UNCHANGED <<translation, velocity, joints, components>>
          /\ Len(delta_v') = Len(delta_v) + 2 * Len(collisions)
          /\ SubSeq(delta_v', 1, Len(delta_v)) = delta_v
          /\ \A i \in 1..Len(collisions) :
                LET a == translation[collisions[i][1]]
                    b == translation[collisions[i][2]]
                    rep == <<delta_v'[Len(delta_v) + 2 * i - 1][2],
                             delta_v'[Len(delta_v) + 2 * i][2]>>
                IN  IF a = b
                    THEN \E angle \in RandomAngles : rep = repulsive_force(a, b, angle)
                    ELSE rep = repulsive_force(a, b, None)]_vars

\* update has queued the impulses of two contacts of one node, and no
\* velocity has changed yet.
C14_Witness ==
    /\ schedule = "Update"
    /\ frame = 0
    /\ Len(delta_v) = 4
    /\ delta_v[1][1] = delta_v[3][1]
    /\ delta_v[1][2] # delta_v[3][2]
    /\ \A n \in Nodes : velocity[n] = Zero

\* ---------------------------------------------------------- order of events
\* The orders of n events.
EventOrders(n) ==
    {p \in [1..n -> 1..n] : \A i, j \in 1..n : i # j => p[i] # p[j]}

\* The events in the order p.
Permute(events, p) == [i \in 1..Len(events) |-> events[p[i]]]

EndsAt(js, e) == {i \in 1..Len(js) : e \in {js[i].entity1, js[i].entity2}}

\* C16: after startup no step changes the joints: none is added, removed or
\* given other ends, rest length or compliance, whether the step is a drag,
\* a physics step, update or process_delta_v; a dragged node keeps its joints.
C16_EdgesStatic ==
    [][schedule # "Init" =>
          /\ joints' = joints
          /\ DragStep => EndsAt(joints', drags'[Len(drags')]) =
                             EndsAt(joints, drags'[Len(drags')])]_vars

\* In the second frame the hub of the two joints is dragged to the cursor
\* position, and the joints are those of startup.
C16_Witness ==
    /\ schedule = "PreUpdate"
    /\ frame = 1
    /\ cursor # None
    /\ Len(drags) >= 1
    /\ translation[drags[1]] = cursor
    /\ Cardinality(JointsOf({drags[1]})) = 2
    /\ \E n \in Nodes : velocity[n] # Zero
    /\ \A i \in 1..Len(joints) :
          /\ joints[i].rest_length = IDEAL_LENGTH
          /\ joints[i].compliance = COMPLIANCE

\* -------------------------------------------------------- node components
\* C17: from startup on there are exactly node_total nodes, and each has
\* the mass node_mass, the collider radius collider_radius and the damping
\* 1 / cooling_factor of the configuration; no step changes a component or
\* the set of nodes.
C17_ComponentsConstant ==
    /\ [](schedule # "Init" =>
             /\ Cardinality(Nodes) = node_total
             /\ DOMAIN components = Nodes
             /\ DOMAIN velocity = Nodes
             /\ \A n \in Nodes :
                   /\ components[n].mass = NODE_MASS
                   /\ components[n].mass = config.node_mass
                   /\ components[n].collider_radius = COLLIDER_RADIUS
                   /\ components[n].collider_radius = config.collider_radius
                   /\ components[n].linear_damping * config.cooling_factor = 10
                   /\ components[n].linear_damping * COOLING_FACTOR = 10)
    /\ [][schedule # "Init" =>
             /\ components' = components
             /\ config' = config
             /\ node_total' = node_total
             /\ DOMAIN translation' = DOMAIN translation]_vars

\* Three nodes with mass 5, radius 49 and damping 5 after a frame with a
\* physics step and a drag.
C17_Witness ==
    /\ frame >= 1
    /\ fixed_steps >= 1
    /\ schedule = "PreUpdate"
    /\ Len(drags) >= 1
    /\ node_total = 3
    /\ Cardinality(Nodes) = 3
    /\ \A n \in Nodes :
          components[n] = [mass |-> 5, collider_radius |-> 49, linear_damping |-> 5]

\* ---------------------------------------------------------- no termination
\* C18: nothing ends the run or holds a tick back: while the model's frames
\* last, a frame can begin after Startup and after every PostUpdate, update
\* can run in every frame and process_delta_v after every update, whatever
\* Iterations, the velocities and the contacts are, and no state is a
\* panic. Iterations counts the phases, one for update and one for
\* process_delta_v of every frame, and nothing else.
C18_NoTermination ==
    /\ schedule # "Panicked"
    /\ (FrameOpen /\ schedule \in {"Startup", "PostUpdate"}) => ENABLED track_cursor
    /\ (FrameOpen /\ schedule \in {"PreUpdate", "RunFixedMainLoop"}) => ENABLED update
    /\ schedule = "Update" => ENABLED process_delta_v
    /\ iterations = 2 * frame + (IF schedule = "Update" THEN 1 ELSE 0)

\* The second tick has run on nodes that the first tick set moving.
C18_Witness ==
    /\ schedule = "PostUpdate"
    /\ frame = 2
    /\ iterations = 4
    /\ fixed_steps = 2
    /\ \E n \in Nodes : velocity[n] # Zero

\* ------------------------------------------------------------ conservation
\* The sum of the vectors second in the events of a queue, from the i-th on.
RECURSIVE SumQueue(_, _)
SumQueue(queue, i) ==
    IF i > Len(queue) THEN Zero ELSE VAdd(queue[i][2], SumQueue(queue, i + 1))

\* The sum of the velocities v of the nodes order[i], order[i + 1], ...
RECURSIVE TotalVelocity(_, _, _)
TotalVelocity(v, order, i) ==
    IF i > Len(order) THEN Zero
    ELSE VAdd(v[order[i]], TotalVelocity(v, order, i + 1))

C20_IdealLengthConsistent ==
    /\ config.ideal_length = IDEAL_LENGTH
    /\ \A i \in 1..Len(joints) :
          /\ joints[i].rest_length = config.ideal_length
          /\ joints[i].rest_length = IDEAL_LENGTH
          /\ \A k \in ImpulsePairs :
                LET diff == VSub(PositionA(k), PositionB(k))
                IN  PositionA(k) # PositionB(k) =>
                        \A c \in 1..2 :
                            ImpulseA(k)[c] * LengthSquared(diff) =
                                diff[c] * joints[i].rest_length
                                    * joints[i].rest_length * VelScale

\* The impulses of a contact of two nodes 24 apart are queued in a graph
\* with joints.
C20_Witness ==
    /\ schedule = "Update"
    /\ Len(joints) = 2
    /\ joints[2].rest_length = 50
    /\ \E k \in ImpulsePairs :
          /\ PositionA(k) = <<10, 24>>
          /\ PositionB(k) = <<10, 0>>
          /\ ImpulseA(k) # Zero

====
